---- MODULE Spec2Model ----
(***************************************************************************)
(* State-machine model of the workflow engine of genai-stack               *)
(* (backend/app/services/workflow_engine.py): validation of a workflow     *)
(* config, construction of the execution graph, the wave scheduler of      *)
(* execute_workflow with its asyncio.gather barrier, the five node         *)
(* handlers and the two collaborators they call.  Spec is one run of       *)
(* execute_workflow, FairSpec the runs of the valid configs under a fair   *)
(* event loop, ValidateSpec the calls of validate_workflow on one config,  *)
(* ConcurrentSpec two execute_workflow calls in flight on one engine,      *)
(* PipelineSpec the runs of five-node retrieval/completion pipelines, and  *)
(* ChatSpec the chat WebSocket endpoint (backend/app/api/websocket/        *)
(* chat_ws.py) that calls the engine for each message of a session.        *)
(*                                                                         *)
(* Conventions.  A Python dict is a record; an absent key / None is the    *)
(* string None.  A Python string is a sequence of tokens, so that joining, *)
(* prefixing and template replacement are computed and not assumed.        *)
(* context["results"] is an insertion-ordered dict: a sequence of          *)
(* [id, res] pairs.  Node ids are unique (data model), node i has id i.    *)
(* Timestamps, relevance scores and the model name carried by results are  *)
(* left out: nothing in the engine reads them.                             *)
(***************************************************************************)
EXTENDS Integers, Sequences, FiniteSets, TLC

\* ---------------------------------------------------------------- bounds
MaxNodes == 3
MaxEdges == 2
\* validate_workflow calls made on one config, and the nodes of such a config
MaxValidateCalls == 2
MaxValidateNodes == 2

\* ------------------------------------------------------------- constants
None == "None"
\* llm_engine keeps at most this many documents of a knowledge_base result
DocsInPrompt == 3

\* class ComponentType
USER_QUERY == "user_query"
KNOWLEDGE_BASE == "knowledge_base"
LLM_ENGINE == "llm_engine"
OUTPUT == "output"
WEB_SEARCH == "web_search"
ComponentType == {USER_QUERY, KNOWLEDGE_BASE, LLM_ENGINE, OUTPUT, WEB_SEARCH}

\* ---------------------------------------------------------------- helpers
Range(s) == {s[i] : i \in DOMAIN s}

RECURSIVE Flatten(_)
\* concatenation of a sequence of sequences
Flatten(ss) == IF ss = <<>> THEN <<>> ELSE Head(ss) \o Flatten(Tail(ss))

RECURSIVE StrJoin(_, _)
\* sep.join(parts) on token strings
StrJoin(sep, parts) ==
    IF parts = <<>> THEN <<>>
    ELSE IF Len(parts) = 1 THEN parts[1]
    ELSE parts[1] \o sep \o StrJoin(sep, Tail(parts))

\* template.replace("{query}", by)
StrReplaceQuery(template, by) ==
    Flatten([k \in DOMAIN template |->
                IF template[k] = "{query}" THEN by ELSE <<template[k]>>])

\* s[:n]
Prefix(s, n) == SubSeq(s, 1, IF Len(s) < n THEN Len(s) ELSE n)

\* ------------------------------------------------- insertion-ordered dict
DictKeys(d) == {d[k].id : k \in DOMAIN d}
DictGet(d, key) == (CHOOSE k \in DOMAIN d : d[k].id = key)
DictValues(d) == [k \in DOMAIN d |-> d[k].res]
\* d[key] = value: an existing key keeps its position, a new key is appended
DictPut(d, key, value) ==
    IF key \in DictKeys(d)
    THEN [k \in DOMAIN d |-> IF d[k].id = key THEN [id |-> key, res |-> value] ELSE d[k]]
    ELSE Append(d, [id |-> key, res |-> value])
DictLookup(d, key) == d[DictGet(d, key)].res

\* result.get("type")
ResultType(r) == IF "type" \in DOMAIN r THEN r.type ELSE None
\* "error" in r
IsErrorEntry(r) == "error" \in DOMAIN r

\* ------------------------------------------------------------ validation
\* node.get("type"), re-read from data when it is the React Flow wrapper
node_type(node) == IF node.type = "custom" THEN node.data.type ELSE node.type

\* n.get("type") == t or n.get("data", {}).get("type") == t
HasTypeOrDataType(n, t) == n.type = t \/ n.data.type = t

has_input(nodes) == \E k \in DOMAIN nodes : HasTypeOrDataType(nodes[k], USER_QUERY)
has_output(nodes) == \E k \in DOMAIN nodes : HasTypeOrDataType(nodes[k], OUTPUT)

node_ids(nodes) == {nodes[k].id : k \in DOMAIN nodes}

\* mutant: the node types are not checked
NodeTypeErrors_skipped(nodes) == <<>>

NodeTypeErrors(nodes) ==
    Flatten([k \in DOMAIN nodes |->
        IF node_type(nodes[k]) \notin ComponentType
        THEN << <<"Invalid node type: ", node_type(nodes[k])>> >>
        ELSE <<>>])

\* mutant: the target of an edge is only looked at when its source is known
EdgeErrors_elif(nodes, edges) ==
    Flatten([k \in DOMAIN edges |->
        IF edges[k].source \notin node_ids(nodes)
        THEN << <<"Invalid edge source: ", edges[k].source>> >>
        ELSE IF edges[k].target \notin node_ids(nodes)
        THEN << <<"Invalid edge target: ", edges[k].target>> >>
        ELSE <<>>])

EdgeErrors(nodes, edges) ==
    Flatten([k \in DOMAIN edges |->
        (IF edges[k].source \notin node_ids(nodes)
         THEN << <<"Invalid edge source: ", edges[k].source>> >> ELSE <<>>)
        \o
        (IF edges[k].target \notin node_ids(nodes)
         THEN << <<"Invalid edge target: ", edges[k].target>> >> ELSE <<>>)])

ApiKeyWarnings(nodes) ==
    Flatten([k \in DOMAIN nodes |->
        IF HasTypeOrDataType(nodes[k], LLM_ENGINE) /\ ~nodes[k].data.config.apiKey
        THEN << <<"LLM node missing API key", nodes[k].id>> >>
        ELSE <<>>])

validate_errors(nodes, edges) ==
    (IF nodes = <<>> THEN << <<"Workflow must have at least one node">> >> ELSE <<>>)
    \o NodeTypeErrors(nodes)
    \o (IF ~has_input(nodes)
        THEN << <<"Workflow must have at least one User Query node">> >> ELSE <<>>)
    \o (IF ~has_output(nodes)
        THEN << <<"Workflow must have at least one Output node">> >> ELSE <<>>)
    \o EdgeErrors(nodes, edges)

validate_workflow(nodes, edges) ==
    [valid |-> Len(validate_errors(nodes, edges)) = 0,
     errors |-> validate_errors(nodes, edges),
     warnings |-> ApiKeyWarnings(nodes)]

\* ------------------------------------------------------- execution graph
\* graph[id] = {dependencies: [...], dependents: [...]}; an edge with an
\* endpoint that is no node id adds nothing
EdgeKnown(nodes, e) == e.source \in node_ids(nodes) /\ e.target \in node_ids(nodes)

\* mutant: an edge is entered at its source as soon as the source is known
build_execution_graph_known_source(nodes, edges) ==
    [id \in node_ids(nodes) |->
        [dependencies |->
            Flatten([k \in DOMAIN edges |->
                IF EdgeKnown(nodes, edges[k]) /\ edges[k].target = id
                THEN <<edges[k].source>> ELSE <<>>]),
         dependents |->
            Flatten([k \in DOMAIN edges |->
                IF edges[k].source = id THEN <<edges[k].target>> ELSE <<>>])]]

\* mutant: an edge from a node to itself is left out of the graph
build_execution_graph_no_self_loops(nodes, edges) ==
    [id \in node_ids(nodes) |->
        [dependencies |->
            Flatten([k \in DOMAIN edges |->
                IF EdgeKnown(nodes, edges[k]) /\ edges[k].target = id
                   /\ edges[k].source # id
                THEN <<edges[k].source>> ELSE <<>>]),
         dependents |->
            Flatten([k \in DOMAIN edges |->
                IF EdgeKnown(nodes, edges[k]) /\ edges[k].source = id
                   /\ edges[k].target # id
                THEN <<edges[k].target>> ELSE <<>>])]]

build_execution_graph(nodes, edges) ==
    [id \in node_ids(nodes) |->
        [dependencies |->
            Flatten([k \in DOMAIN edges |->
                IF EdgeKnown(nodes, edges[k]) /\ edges[k].target = id
                THEN <<edges[k].source>> ELSE <<>>]),
         dependents |->
            Flatten([k \in DOMAIN edges |->
                IF EdgeKnown(nodes, edges[k]) /\ edges[k].source = id
                THEN <<edges[k].target>> ELSE <<>>])]]

\* --------------------------------------------------------- collaborators
\* what the vector store can answer to search_by_text: "documents" lists
DocLists == {<<>>, << <<"d1">> >>, << <<"d1">>, <<"d2">>, <<"d3">>, <<"d4">> >>}
RetrievalErrors == {<<"chroma unavailable">>}
\* what the model provider can answer to a completion request
Texts == {<<"A">>, <<"B">>}
UpstreamErrors == {<<"insufficient_quota">>, <<"connection reset">>}

\* LLMService.generate_completion: the substrings that turn an upstream
\* failure into the canned demo response instead of a raised exception
FallbackMarkers == {"insufficient_quota", "429", "not found", "404", "quota"}
DemoResponse == <<"[DEMO MODE]">>
IsFallbackError(msg) == \E k \in DOMAIN msg : msg[k] \in FallbackMarkers

\* ----------------------------------------------------------------- nodes
Template == <<"Answer: ", "{query}">>

Shape(t, dt, key, prompt) ==
    [type |-> t, data |-> [type |-> dt, config |-> [apiKey |-> key, prompt |-> prompt]]]

\* the node shapes a config is drawn from: the five component types, an
\* llm_engine with a prompt template and no API key, a React Flow wrapper
\* node, a node whose data.type differs from its type, an unknown type
NodeShapes ==
    {Shape(t, None, TRUE, <<>>) : t \in ComponentType}
    \cup {Shape(LLM_ENGINE, None, FALSE, Template),
          Shape("custom", OUTPUT, TRUE, <<>>),
          Shape(USER_QUERY, OUTPUT, TRUE, <<>>),
          Shape("bogus", None, TRUE, <<>>)}

MakeNode(i, shape) == [id |-> i, type |-> shape.type, data |-> shape.data]

\* ids an edge may name: a config of fewer than MaxNodes nodes leaves some
\* of them undeclared
EdgeIds == 1..MaxNodes
AllEdges == [source : EdgeIds, target : EdgeIds]
EdgeKey(e) == e.source * (MaxNodes + 1) + e.target
\* the edge lists of a config: up to MaxEdges edges, repetitions included,
\* listed by (source, target); neither the validator's verdict nor the
\* scheduler depends on the order of the edges
EdgeSeqs ==
    {es \in UNION {[1..n -> AllEdges] : n \in 0..MaxEdges} :
        \A k \in DOMAIN es : k > 1 => EdgeKey(es[k - 1]) <= EdgeKey(es[k])}

UserInputs == {<<"hello">>}

\* ------------------------------------------------------------- handlers
execute_user_query(node, context) ==
    [type |-> "user_query", content |-> context.user_input]

execute_web_search(node, context) ==
    [type |-> "web_search", results |-> <<>>, query |-> context.user_input,
     message |-> <<"Web search integration coming soon">>]

\* the values of context["results"] whose type is t, in dict order
ResultsOfType(context, t) ==
    SelectSeq(DictValues(context.results), LAMBDA r : ResultType(r) = t)

\* mutant: the output handler hands on a failure it finds in the context
execute_output_propagates(node, context) ==
    IF \E k \in DOMAIN context.results : IsErrorEntry(context.results[k].res)
    THEN [error |-> <<"upstream node failed">>]
    ELSE [type |-> "output", content |-> <<"No output generated">>]

\* mutant: only the last llm_response of the context is quoted
execute_output_last(node, context) ==
    LET rs == ResultsOfType(context, "llm_response")
    IN [type |-> "output",
        content |-> IF rs # <<>> THEN rs[Len(rs)].content
                    ELSE <<"No output generated">>]

execute_output(node, context) ==
    LET output_content ==
            [k \in DOMAIN ResultsOfType(context, "llm_response") |->
                ResultsOfType(context, "llm_response")[k].content]
    IN [type |-> "output",
        content |-> IF output_content # <<>>
                    THEN StrJoin(<<"\n\n">>, output_content)
                    ELSE <<"No output generated">>]

\* mutant: the prompt quotes the last knowledge_base result of the context
llm_prompt_last_kb(node, context) ==
    LET kbs == ResultsOfType(context, "knowledge_base")
        withDocs ==
            IF kbs # <<>> /\ kbs[Len(kbs)].documents # <<>>
            THEN <<"Context:\n">>
                 \o StrJoin(<<"\n\n">>, Prefix(kbs[Len(kbs)].documents, DocsInPrompt))
                 \o <<"\n\nQuestion: ">> \o context.user_input
            ELSE context.user_input
    IN IF node.data.config.prompt # <<>>
       THEN StrReplaceQuery(node.data.config.prompt, withDocs)
       ELSE withDocs

\* _execute_llm_engine up to the call of generate_completion: the prompt
llm_prompt(node, context) ==
    LET kbs == ResultsOfType(context, "knowledge_base")
        withDocs ==
            IF kbs # <<>> /\ kbs[1].documents # <<>>
            THEN <<"Context:\n">>
                 \o StrJoin(<<"\n\n">>, Prefix(kbs[1].documents, DocsInPrompt))
                 \o <<"\n\nQuestion: ">> \o context.user_input
            ELSE context.user_input
    IN IF node.data.config.prompt # <<>>
       THEN StrReplaceQuery(node.data.config.prompt, withDocs)
       ELSE withDocs

llm_result(response) == [type |-> "llm_response", content |-> response]

knowledge_base_result(search_results) ==
    [type |-> "knowledge_base", documents |-> search_results]

\* -------------------------------------------------------------- scheduler
\* mutant: every node not yet executed is ready, whatever it depends on
find_ready_nodes_nodeps(nodes, graph, executed) ==
    SelectSeq(nodes, LAMBDA n : n.id \notin executed)

\* mutant: only the first of the ready nodes is taken, the others wait
find_ready_nodes_first(nodes, graph, executed) ==
    Prefix(SelectSeq(nodes, LAMBDA n :
               /\ n.id \notin executed
               /\ \A k \in DOMAIN graph[n.id].dependencies :
                     graph[n.id].dependencies[k] \in executed), 1)

\* mutant: a node that is already executed is ready again
find_ready_nodes_rerun(nodes, graph, executed) ==
    SelectSeq(nodes, LAMBDA n :
        \A k \in DOMAIN graph[n.id].dependencies :
            graph[n.id].dependencies[k] \in executed)

\* the nodes, in declaration order, that are not executed and whose
\* dependencies are all executed
find_ready_nodes(nodes, graph, executed) ==
    SelectSeq(nodes, LAMBDA n :
        /\ n.id \notin executed
        /\ \A k \in DOMAIN graph[n.id].dependencies :
              graph[n.id].dependencies[k] \in executed)

\* mutant: gather returns as soon as one task has finished
gather_complete_any(tasks) == \E k \in DOMAIN tasks : tasks[k].st \in {"returned", "raised"}

\* asyncio.gather(*tasks, return_exceptions=True) is complete
gather_complete(tasks) == \A k \in DOMAIN tasks : tasks[k].st \in {"returned", "raised"}

RECURSIVE store_results_abort(_, _, _)
\* mutant: the first failed task ends the storing of the wave's results
store_results_abort(results, ready, tasks) ==
    IF ready = <<>> \/ Head(tasks).st = "raised" THEN results
    ELSE store_results_abort(DictPut(results, Head(ready).id, Head(tasks).value),
                             Tail(ready), Tail(tasks))

RECURSIVE store_results_skip_errors(_, _, _)
\* mutant: the result of a failed task is dropped instead of stored
store_results_skip_errors(results, ready, tasks) ==
    IF ready = <<>> THEN results
    ELSE store_results_skip_errors(
            IF Head(tasks).st = "raised" THEN results
            ELSE DictPut(results, Head(ready).id, Head(tasks).value),
            Tail(ready), Tail(tasks))

\* mutant: a failure is stored with a type tag beside its message
store_results_tagged(results, ready, tasks) ==
    store_results_skip_errors(results, ready,
        [k \in DOMAIN tasks |->
            IF tasks[k].st = "raised"
            THEN [st |-> "returned",
                  value |-> [type |-> "error", error |-> tasks[k].value.exception]]
            ELSE tasks[k]])

\* mutant: the results of a wave replace the dict instead of being added to it
store_results_replace(results, ready, tasks) ==
    [k \in DOMAIN ready |->
        [id |-> ready[k].id,
         res |-> IF tasks[k].st = "raised"
                 THEN [error |-> tasks[k].value.exception]
                 ELSE tasks[k].value]]

RECURSIVE store_results(_, _, _)
\* for node, result in zip(ready_nodes, results): context["results"][id] = ...
store_results(results, ready, tasks) ==
    IF ready = <<>> THEN results
    ELSE store_results(
            DictPut(results, Head(ready).id,
                    IF Head(tasks).st = "raised"
                    THEN [error |-> Head(tasks).value.exception]
                    ELSE Head(tasks).value),
            Tail(ready), Tail(tasks))

final_output(nodes, results) ==
    Flatten([k \in DOMAIN nodes |->
        IF HasTypeOrDataType(nodes[k], OUTPUT) /\ nodes[k].id \in DictKeys(results)
        THEN <<DictLookup(results, nodes[k].id)>> ELSE <<>>])

\* mutant: an error entry is recognised by a type tag it does not carry
count_errors_by_type(results) ==
    Cardinality({k \in DOMAIN results : ResultType(results[k].res) = "error"})

count_errors(results) == Cardinality({k \in DOMAIN results : IsErrorEntry(results[k].res)})

execution_summary(nodes, executed, results) ==
    [total_nodes |-> Len(nodes),
     executed_nodes |-> Cardinality(executed),
     errors |-> count_errors(results)]

\* ------------------------------------------------------------------ state
VARIABLES
    workflow_config,   \* the config handed to execute_workflow: [nodes, edges]
    user_input,        \* the user input handed to execute_workflow
    pc,                \* "call" | "gather" | "returned" | "raised"
    execution_graph,   \* _build_execution_graph(nodes, edges) of this run
    results,           \* context["results"]
    executed_nodes,    \* the set executed_nodes
    ready_nodes,       \* the wave being executed, in declaration order
    tasks,             \* one task per ready node: [st, value]
    wave,              \* number of waves started
    outcome,           \* what execute_workflow returned or raised
    calls,             \* the collaborator invocations made so far, in order
    history,           \* per node id: what happened to its handler (see NoHistory)
    validations,       \* what the validate_workflow calls made on the config
                       \* from outside a run returned, in call order
    runs,              \* the execute_workflow calls in flight together on the
                       \* one engine: per call, its arguments and its locals
    active_connections, \* ConnectionManager.active_connections[session_id]:
                       \* the connections registered for the chat session
    endpoints,         \* per connection: its client's socket and the position
                       \* and locals of its websocket_endpoint coroutine
    broadcast_log      \* per connection: the frames its endpoint received and
                       \* the broadcasts it made, as they ended

vars == <<workflow_config, user_input, pc, execution_graph, results, executed_nodes,
          ready_nodes, tasks, wave, outcome, calls, history, validations, runs,
          active_connections, endpoints, broadcast_log>>

\* the state of the run of execute_workflow
run_vars == <<user_input, pc, execution_graph, results, executed_nodes,
              ready_nodes, tasks, wave, outcome, calls, history>>
\* the state of the other calls made on the engine
other_calls == <<validations, runs, active_connections, endpoints, broadcast_log>>
\* the state of the chat transport
chat_vars == <<active_connections, endpoints, broadcast_log>>

nodes == workflow_config.nodes
edges == workflow_config.edges
context == [user_input |-> user_input, results |-> results]

NoOutcome == [kind |-> "none"]
\* a task that has not finished has no result yet
Pending == [pending |-> TRUE]
Created == [st |-> "created", value |-> Pending]

\* history of a node: the wave its task was created in, how often its handler
\* was invoked, the keys of context["results"] when the handler started, and
\* the handler's state: "none" | "started" | "returned" | "raised"
NoHistory == [wave |-> 0, invoked |-> 0, seen |-> {}, handler |-> "none"]

Init ==
    /\ \E n \in 0..MaxNodes : \E shapes \in [1..n -> NodeShapes] : \E es \in EdgeSeqs :
          workflow_config = [nodes |-> [i \in 1..n |-> MakeNode(i, shapes[i])],
                             edges |-> es]
    /\ user_input \in UserInputs
    /\ pc = "call"
    /\ execution_graph = <<>>
    /\ results = <<>>
    /\ executed_nodes = {}
    /\ ready_nodes = <<>>
    /\ tasks = <<>>
    /\ wave = 0
    /\ outcome = NoOutcome
    /\ calls = <<>>
    /\ history = [i \in 1..MaxNodes |-> NoHistory]
    /\ validations = <<>>
    /\ runs = <<>>
    /\ active_connections = {}
    /\ endpoints = <<>>
    /\ broadcast_log = <<>>

\* mutant: the validation result is not consulted
must_raise_never(validation) == FALSE

\* if not validation["valid"]: raise
must_raise(validation) == ~validation.valid

\* mutant: a stall (no ready node while nodes remain) is reported as an error
LoopOrReturn_stall_error(graph, res, executed) ==
    LET ready == find_ready_nodes(nodes, graph, executed) IN
    IF Cardinality(executed) < Len(nodes) /\ ready # <<>>
    THEN /\ pc' = "gather"
         /\ ready_nodes' = ready
         /\ tasks' = [k \in DOMAIN ready |-> Created]
         /\ wave' = wave + 1
         /\ outcome' = outcome
         /\ history' = [i \in DOMAIN history |->
                          IF i \in node_ids(ready)
                          THEN [history[i] EXCEPT !.wave = wave + 1]
                          ELSE history[i]]
    ELSE /\ pc' = IF Cardinality(executed) < Len(nodes) THEN "raised" ELSE "returned"
         /\ ready_nodes' = <<>>
         /\ tasks' = <<>>
         /\ wave' = wave
         /\ outcome' = IF Cardinality(executed) < Len(nodes)
                       THEN [kind |-> "raise", error |-> <<"Stalled graph">>]
                       ELSE [kind |-> "return",
                             output |-> final_output(nodes, res),
                             execution_summary |-> execution_summary(nodes, executed, res)]
         /\ history' = history

\* mutant: the loop goes on while nodes remain, ready or not
LoopOrReturn_no_break(graph, res, executed) ==
    LET ready == find_ready_nodes(nodes, graph, executed) IN
    IF Cardinality(executed) < Len(nodes)
    THEN /\ pc' = "gather"
         /\ ready_nodes' = ready
         /\ tasks' = [k \in DOMAIN ready |-> Created]
         /\ wave' = wave + 1
         /\ outcome' = outcome
         /\ history' = [i \in DOMAIN history |->
                          IF i \in node_ids(ready)
                          THEN [history[i] EXCEPT !.wave = wave + 1]
                          ELSE history[i]]
    ELSE /\ pc' = "returned"
         /\ ready_nodes' = <<>>
         /\ tasks' = <<>>
         /\ wave' = wave
         /\ outcome' = [kind |-> "return",
                        output |-> final_output(nodes, res),
                        execution_summary |-> execution_summary(nodes, executed, res)]
         /\ history' = history

\* the head of the while loop and what follows the loop, for the values the
\* loop body (or the code before the loop) leaves in results and executed_nodes
LoopOrReturn(graph, res, executed) ==
    LET ready == find_ready_nodes(nodes, graph, executed) IN
    IF Cardinality(executed) < Len(nodes) /\ ready # <<>>
    THEN /\ pc' = "gather"
         /\ ready_nodes' = ready
         /\ tasks' = [k \in DOMAIN ready |-> Created]
         /\ wave' = wave + 1
         /\ outcome' = outcome
         /\ history' = [i \in DOMAIN history |->
                          IF i \in node_ids(ready)
                          THEN [history[i] EXCEPT !.wave = wave + 1]
                          ELSE history[i]]
    ELSE /\ pc' = "returned"
         /\ ready_nodes' = <<>>
         /\ tasks' = <<>>
         /\ wave' = wave
         /\ outcome' = [kind |-> "return",
                        output |-> final_output(nodes, res),
                        execution_summary |-> execution_summary(nodes, executed, res)]
         /\ history' = history

\* execute_workflow from its call to the first await of asyncio.gather (or to
\* its end): validation, graph, context, first wave
execute_workflow ==
    /\ pc = "call"
    /\ LET validation == validate_workflow(nodes, edges) IN
       IF must_raise(validation)
       THEN /\ pc' = "raised"
            /\ outcome' = [kind |-> "raise",
                           error |-> <<"Invalid workflow: ", validation.errors>>]
            /\ UNCHANGED <<execution_graph, ready_nodes, tasks, wave, history>>
       ELSE /\ execution_graph' = build_execution_graph(nodes, edges)
            /\ LoopOrReturn(build_execution_graph(nodes, edges), <<>>, {})
    /\ UNCHANGED <<workflow_config, user_input, results, executed_nodes, calls>>
    /\ UNCHANGED other_calls

SetTask(k, st, value) == [tasks EXCEPT ![k] = [st |-> st, value |-> value]]

\* the first step of the task of ready node k: _execute_node dispatches on the
\* node's type; a handler that awaits a collaborator stops at that await
execute_node(k) ==
    /\ pc = "gather"
    /\ k \in DOMAIN tasks
    /\ tasks[k].st = "created"
    /\ LET node == ready_nodes[k]
           t == node_type(node)
           started == [history[node.id] EXCEPT !.invoked = @ + 1,
                                               !.seen = DictKeys(results)]
           Finish(st, value) ==
               /\ tasks' = SetTask(k, st, value)
               /\ calls' = calls
               /\ history' = [history EXCEPT ![node.id] =
                                 [started EXCEPT !.handler = st]]
           Call(collaborator, text) ==
               /\ tasks' = SetTask(k, "awaiting", Pending)
               /\ calls' = Append(calls, [collaborator |-> collaborator,
                                          node |-> node.id, text |-> text])
               /\ history' = [history EXCEPT ![node.id] =
                                 [started EXCEPT !.handler = "started"]]
       IN CASE t = USER_QUERY -> Finish("returned", execute_user_query(node, context))
            [] t = KNOWLEDGE_BASE -> Call("search_by_text", user_input)
            [] t = LLM_ENGINE -> Call("generate_completion", llm_prompt(node, context))
            [] t = WEB_SEARCH -> Finish("returned", execute_web_search(node, context))
            [] t = OUTPUT -> Finish("returned", execute_output(node, context))
            [] OTHER -> Finish("raised", [exception |-> <<"Unknown node type: ", t>>])
    /\ UNCHANGED <<workflow_config, user_input, pc, execution_graph, results,
                   executed_nodes, ready_nodes, wave, outcome>>
    /\ UNCHANGED other_calls

Awaiting(k, t) ==
    /\ pc = "gather"
    /\ k \in DOMAIN tasks
    /\ tasks[k].st = "awaiting"
    /\ node_type(ready_nodes[k]) = t

\* mutant: a handler that ends writes its result into context["results"] itself
TaskStep_writes(k, st, value) ==
    /\ tasks' = SetTask(k, st, value)
    /\ history' = [history EXCEPT ![ready_nodes[k].id].handler = st]
    /\ results' = DictPut(results, ready_nodes[k].id, value)
    /\ UNCHANGED <<workflow_config, user_input, pc, execution_graph,
                   executed_nodes, ready_nodes, wave, outcome, calls>>
    /\ UNCHANGED other_calls

\* the task of ready node k ends: its handler returned value or raised it.  The
\* task only hands its result to gather; context["results"] is not written
TaskStep(k, st, value) ==
    /\ tasks' = SetTask(k, st, value)
    /\ history' = [history EXCEPT ![ready_nodes[k].id].handler = st]
    /\ results' = results
    /\ UNCHANGED <<workflow_config, user_input, pc, execution_graph,
                   executed_nodes, ready_nodes, wave, outcome, calls>>
    /\ UNCHANGED other_calls

\* vector_store_service.search_by_text returns; _execute_knowledge_base returns
search_by_text_returns(k) ==
    /\ Awaiting(k, KNOWLEDGE_BASE)
    /\ \E docs \in DocLists : TaskStep(k, "returned", knowledge_base_result(docs))

\* search_by_text raises: the exception leaves _execute_knowledge_base and
\* _execute_node and is the task's result
search_by_text_raises(k) ==
    /\ Awaiting(k, KNOWLEDGE_BASE)
    /\ \E e \in RetrievalErrors : TaskStep(k, "raised", [exception |-> e])

\* generate_completion returns the provider's text, or the demo response when
\* the provider failed with one of the fallback errors
generate_completion_returns(k) ==
    /\ Awaiting(k, LLM_ENGINE)
    /\ \/ \E text \in Texts : TaskStep(k, "returned", llm_result(text))
       \/ \E e \in UpstreamErrors :
             /\ IsFallbackError(e)
             /\ TaskStep(k, "returned", llm_result(DemoResponse))

\* generate_completion re-raises any other failure of the provider
generate_completion_raises(k) ==
    /\ Awaiting(k, LLM_ENGINE)
    /\ \E e \in UpstreamErrors :
          /\ ~IsFallbackError(e)
          /\ TaskStep(k, "raised", [exception |-> e])

\* asyncio.gather returns: the results of the wave are stored in declaration
\* order, its nodes are marked executed, and the loop goes on or ends
join_wave ==
    /\ pc = "gather"
    /\ gather_complete(tasks)
    /\ results' = store_results(results, ready_nodes, tasks)
    /\ executed_nodes' = executed_nodes \cup node_ids(ready_nodes)
    /\ LoopOrReturn(execution_graph,
                    store_results(results, ready_nodes, tasks),
                    executed_nodes \cup node_ids(ready_nodes))
    /\ UNCHANGED <<workflow_config, user_input, execution_graph, calls>>
    /\ UNCHANGED other_calls

Next ==
    \/ execute_workflow
    \/ \E k \in DOMAIN tasks : execute_node(k)
    \/ \E k \in DOMAIN tasks : search_by_text_returns(k)
    \/ \E k \in DOMAIN tasks : search_by_text_raises(k)
    \/ \E k \in DOMAIN tasks : generate_completion_returns(k)
    \/ \E k \in DOMAIN tasks : generate_completion_raises(k)
    \/ join_wave

Spec == Init /\ [][Next]_vars

\* the runs of the configs that pass validation, in which the event loop runs
\* every task that can run and every collaborator call returns or fails (no
\* call hangs)
InitValid == Init /\ validate_workflow(nodes, edges).valid
FairSpec == InitValid /\ [][Next]_vars /\ WF_vars(Next)

\* ------------------------------------ runs of retrieval/completion pipelines
\* configs of PipelineNodes nodes with two knowledge_base nodes or two
\* llm_engine nodes between a user_query and an output node, and up to
\* PipelineEdges distinct edges between different nodes: the handlers that
\* read context["results"] find several results of the type they look for
PipelineNodes == 5
PipelineEdges == 2
PipelineTypes ==
    {<<USER_QUERY, KNOWLEDGE_BASE, KNOWLEDGE_BASE, LLM_ENGINE, OUTPUT>>,
     <<USER_QUERY, LLM_ENGINE, LLM_ENGINE, KNOWLEDGE_BASE, OUTPUT>>}
PipelineEdgeSet ==
    {e \in [source : 1..PipelineNodes, target : 1..PipelineNodes] : e.source # e.target}
PipelineEdgeKey(e) == e.source * (PipelineNodes + 1) + e.target
PipelineEdgeSeqs ==
    {es \in UNION {[1..n -> PipelineEdgeSet] : n \in 0..PipelineEdges} :
        \A k \in DOMAIN es :
            k > 1 => PipelineEdgeKey(es[k - 1]) < PipelineEdgeKey(es[k])}

InitPipeline ==
    /\ \E types \in PipelineTypes : \E es \in PipelineEdgeSeqs :
          workflow_config =
              [nodes |-> [i \in 1..PipelineNodes |->
                             MakeNode(i, Shape(types[i], None, TRUE, <<>>))],
               edges |-> es]
    /\ user_input \in UserInputs
    /\ pc = "call"
    /\ execution_graph = <<>>
    /\ results = <<>>
    /\ executed_nodes = {}
    /\ ready_nodes = <<>>
    /\ tasks = <<>>
    /\ wave = 0
    /\ outcome = NoOutcome
    /\ calls = <<>>
    /\ history = [i \in 1..PipelineNodes |-> NoHistory]
    /\ validations = <<>>
    /\ runs = <<>>
    /\ active_connections = {}
    /\ endpoints = <<>>
    /\ broadcast_log = <<>>

PipelineSpec == InitPipeline /\ [][Next]_vars

\* ------------------------------------------- validate_workflow on its own
\* the node shapes the validator tells apart: type and data.type each one of
\* the types it looks for, another component type, the wrapper marker, an
\* unknown type or nothing; an API key matters on llm_engine nodes only
ValidateShapes ==
    {Shape(t, dt, key, <<>>) :
        t \in {USER_QUERY, OUTPUT, LLM_ENGINE, KNOWLEDGE_BASE, "custom", "bogus"},
        dt \in {None, USER_QUERY, OUTPUT, LLM_ENGINE},
        key \in BOOLEAN}
    \ {Shape(t, dt, FALSE, <<>>) :
        t \in {USER_QUERY, OUTPUT, KNOWLEDGE_BASE, "custom", "bogus"},
        dt \in {None, USER_QUERY, OUTPUT}}

InitValidate ==
    /\ \E n \in 0..MaxValidateNodes : \E shapes \in [1..n -> ValidateShapes] :
       \E es \in EdgeSeqs :
          workflow_config = [nodes |-> [i \in 1..n |-> MakeNode(i, shapes[i])],
                             edges |-> es]
    /\ user_input \in UserInputs
    /\ pc = "call"
    /\ execution_graph = <<>>
    /\ results = <<>>
    /\ executed_nodes = {}
    /\ ready_nodes = <<>>
    /\ tasks = <<>>
    /\ wave = 0
    /\ outcome = NoOutcome
    /\ calls = <<>>
    /\ history = [i \in 1..MaxNodes |-> NoHistory]
    /\ validations = <<>>
    /\ runs = <<>>
    /\ active_connections = {}
    /\ endpoints = <<>>
    /\ broadcast_log = <<>>

\* mutant: the list is kept on the engine from one call to the next
new_list_kept(previous) == previous

\* errors = [] and warnings = []: each call starts from lists of its own
new_list(previous) == <<>>

\* a call of validate_workflow(workflow_config) from outside a run.  The
\* coroutine holds no await: the call is one step, whatever else the event
\* loop has in flight.  It reads the config through .get and writes nothing
\* but its own two lists.
validate_workflow_call ==
    /\ Len(validations) < MaxValidateCalls
    /\ LET previous == IF validations = <<>>
                       THEN [errors |-> <<>>, warnings |-> <<>>]
                       ELSE validations[Len(validations)]
           errors == new_list(previous.errors) \o validate_errors(nodes, edges)
           warnings == new_list(previous.warnings) \o ApiKeyWarnings(nodes)
       IN validations' = Append(validations,
                                [valid |-> Len(errors) = 0,
                                 errors |-> errors,
                                 warnings |-> warnings])
    /\ UNCHANGED workflow_config
    /\ UNCHANGED run_vars
    /\ UNCHANGED runs
    /\ UNCHANGED chat_vars

NextValidate == validate_workflow_call

ValidateSpec == InitValidate /\ [][NextValidate]_vars

\* ------------------------------- two execute_workflow calls on one engine
\* chat_ws.py holds one WorkflowEngine for every session: the calls in flight
\* together are coroutines of one event loop, each with the locals of its own
\* frame, interleaved at their awaits
RunIds == {1, 2}

\* the configs the calls are made with: the chain user_query -> llm_engine ->
\* output, a knowledge_base beside a user_query in front of an output, and a
\* config without output node, which validation rejects
ConcurrentConfigs ==
    {[nodes |-> <<MakeNode(1, Shape(USER_QUERY, None, TRUE, <<>>)),
                  MakeNode(2, Shape(LLM_ENGINE, None, TRUE, <<>>)),
                  MakeNode(3, Shape(OUTPUT, None, TRUE, <<>>))>>,
      edges |-> <<[source |-> 1, target |-> 2], [source |-> 2, target |-> 3]>>],
     [nodes |-> <<MakeNode(1, Shape(USER_QUERY, None, TRUE, <<>>)),
                  MakeNode(2, Shape(KNOWLEDGE_BASE, None, TRUE, <<>>)),
                  MakeNode(3, Shape(OUTPUT, None, TRUE, <<>>))>>,
      edges |-> <<[source |-> 2, target |-> 3]>>],
     [nodes |-> <<MakeNode(1, Shape(USER_QUERY, None, TRUE, <<>>)),
                  MakeNode(2, Shape(LLM_ENGINE, None, TRUE, <<>>))>>,
      edges |-> <<[source |-> 1, target |-> 2]>>]}

\* what each call is given, so that a result tells which call it is of: its
\* user input, and what the collaborators answer to it when they do not fail
UserInputOf(r) == IF r = 1 THEN <<"hello">> ELSE <<"bye">>
CompletionOf(r) == IF r = 1 THEN <<"A">> ELSE <<"B">>
DocumentsOf(r) == IF r = 1 THEN << <<"d1">> >>
                  ELSE << <<"d1">>, <<"d2">>, <<"d3">>, <<"d4">> >>

\* per node id, whether the collaborator its handler calls answers or fails
\* (a node that calls none is marked "ok")
AnswersFor(config) ==
    {a \in [DOMAIN config.nodes -> {"ok", "fail"}] :
        \A i \in DOMAIN a :
            node_type(config.nodes[i]) \notin {KNOWLEDGE_BASE, LLM_ENGINE} => a[i] = "ok"}

\* an execute_workflow call that has not started to run
NewRun(r, config, answers) ==
    [id |-> r, config |-> config, user_input |-> UserInputOf(r), answers |-> answers,
     pc |-> "call", execution_graph |-> <<>>, results |-> <<>>, executed_nodes |-> {},
     ready_nodes |-> <<>>, tasks |-> <<>>, wave |-> 0, outcome |-> NoOutcome]

InitConcurrent ==
    /\ workflow_config = [nodes |-> <<>>, edges |-> <<>>]
    /\ user_input \in UserInputs
    /\ pc = "call"
    /\ execution_graph = <<>>
    /\ results = <<>>
    /\ executed_nodes = {}
    /\ ready_nodes = <<>>
    /\ tasks = <<>>
    /\ wave = 0
    /\ outcome = NoOutcome
    /\ calls = <<>>
    /\ history = [i \in 1..MaxNodes |-> NoHistory]
    /\ validations = <<>>
    /\ \E c1 \in ConcurrentConfigs, c2 \in ConcurrentConfigs :
       \E a1 \in AnswersFor(c1), a2 \in AnswersFor(c2) :
          runs = [r \in RunIds |-> IF r = 1 THEN NewRun(1, c1, a1) ELSE NewRun(2, c2, a2)]
    /\ active_connections = {}
    /\ endpoints = <<>>
    /\ broadcast_log = <<>>

\* mutant: the results dict is kept on the engine, each call going on with
\* what is in it
new_results_kept(on_engine) == on_engine

\* "results": {} in the context a call builds: a dict of its own
new_results(on_engine) == <<>>

\* context as the handlers of a call read it
ContextOf(run, res) == [user_input |-> run.user_input, results |-> res]

\* what the collaborator called for a node answers: the task's end
collaborator_answer(run, node) ==
    CASE node_type(node) = KNOWLEDGE_BASE /\ run.answers[node.id] = "ok" ->
            [st |-> "returned", value |-> knowledge_base_result(DocumentsOf(run.id))]
      [] node_type(node) = KNOWLEDGE_BASE /\ run.answers[node.id] = "fail" ->
            [st |-> "raised", value |-> [exception |-> <<"chroma unavailable">>]]
      [] node_type(node) = LLM_ENGINE /\ run.answers[node.id] = "ok" ->
            [st |-> "returned", value |-> llm_result(CompletionOf(run.id))]
      [] OTHER ->
            [st |-> "raised", value |-> [exception |-> <<"connection reset">>]]

\* how the task of a node ends when its handler reads the results res
handler_outcome(run, node, res) ==
    CASE node_type(node) = USER_QUERY ->
            [st |-> "returned", value |-> execute_user_query(node, ContextOf(run, res))]
      [] node_type(node) = WEB_SEARCH ->
            [st |-> "returned", value |-> execute_web_search(node, ContextOf(run, res))]
      [] node_type(node) = OUTPUT ->
            [st |-> "returned", value |-> execute_output(node, ContextOf(run, res))]
      [] node_type(node) \in {KNOWLEDGE_BASE, LLM_ENGINE} -> collaborator_answer(run, node)
      [] OTHER ->
            [st |-> "raised",
             value |-> [exception |-> <<"Unknown node type: ", node_type(node)>>]]

\* the head of the while loop of a call and what follows the loop, as
\* LoopOrReturn, on the locals of the call
run_loop_or_return(run, res, executed) ==
    LET ready == find_ready_nodes(run.config.nodes, run.execution_graph, executed) IN
    IF Cardinality(executed) < Len(run.config.nodes) /\ ready # <<>>
    THEN [run EXCEPT !.pc = "gather", !.results = res, !.executed_nodes = executed,
                     !.ready_nodes = ready,
                     !.tasks = [k \in DOMAIN ready |-> Created],
                     !.wave = @ + 1]
    ELSE [run EXCEPT !.pc = "returned", !.results = res, !.executed_nodes = executed,
                     !.ready_nodes = <<>>, !.tasks = <<>>,
                     !.outcome = [kind |-> "return",
                                  output |-> final_output(run.config.nodes, res),
                                  execution_summary |->
                                      execution_summary(run.config.nodes, executed, res)]]

\* call r runs from its start to its first await of asyncio.gather, or to its end
run_execute_workflow(r) ==
    /\ runs[r].pc = "call"
    /\ LET run == runs[r]
           validation == validate_workflow(run.config.nodes, run.config.edges)
           on_engine == runs[CHOOSE o \in RunIds : o # r].results
           started == [run EXCEPT
                          !.execution_graph =
                              build_execution_graph(run.config.nodes, run.config.edges),
                          !.results = new_results(on_engine)]
       IN runs' = [runs EXCEPT ![r] =
                     IF must_raise(validation)
                     THEN [run EXCEPT !.pc = "raised",
                                      !.outcome = [kind |-> "raise",
                                                   error |-> <<"Invalid workflow: ",
                                                               validation.errors>>]]
                     ELSE run_loop_or_return(started, started.results, {})]
    /\ UNCHANGED <<workflow_config, validations>>
    /\ UNCHANGED run_vars
    /\ UNCHANGED chat_vars

\* the task of ready node k of call r starts: its handler returns at once, or
\* stops at the await of its collaborator
run_execute_node(r, k) ==
    /\ runs[r].pc = "gather"
    /\ k \in DOMAIN runs[r].tasks
    /\ runs[r].tasks[k].st = "created"
    /\ LET run == runs[r]
           node == run.ready_nodes[k]
       IN runs' = [runs EXCEPT ![r].tasks[k] =
                     IF node_type(node) \in {KNOWLEDGE_BASE, LLM_ENGINE}
                     THEN [st |-> "awaiting", value |-> Pending]
                     ELSE handler_outcome(run, node, run.results)]
    /\ UNCHANGED <<workflow_config, validations>>
    /\ UNCHANGED run_vars
    /\ UNCHANGED chat_vars

\* the collaborator awaited by the task of ready node k of call r answers or
\* fails: the task ends
run_collaborator_answers(r, k) ==
    /\ runs[r].pc = "gather"
    /\ k \in DOMAIN runs[r].tasks
    /\ runs[r].tasks[k].st = "awaiting"
    /\ runs' = [runs EXCEPT ![r].tasks[k] =
                  collaborator_answer(runs[r], runs[r].ready_nodes[k])]
    /\ UNCHANGED <<workflow_config, validations>>
    /\ UNCHANGED run_vars
    /\ UNCHANGED chat_vars

\* asyncio.gather of call r returns: the wave is stored and the loop goes on
run_join_wave(r) ==
    /\ runs[r].pc = "gather"
    /\ gather_complete(runs[r].tasks)
    /\ LET run == runs[r] IN
       runs' = [runs EXCEPT ![r] =
                  run_loop_or_return(run,
                      store_results(run.results, run.ready_nodes, run.tasks),
                      run.executed_nodes \cup node_ids(run.ready_nodes))]
    /\ UNCHANGED <<workflow_config, validations>>
    /\ UNCHANGED run_vars
    /\ UNCHANGED chat_vars

NextConcurrent ==
    \/ \E r \in RunIds : run_execute_workflow(r)
    \/ \E r \in RunIds : \E k \in 1..MaxNodes : run_execute_node(r, k)
    \/ \E r \in RunIds : \E k \in 1..MaxNodes : run_collaborator_answers(r, k)
    \/ \E r \in RunIds : run_join_wave(r)

ConcurrentSpec == InitConcurrent /\ [][NextConcurrent]_vars

RECURSIVE alone_waves(_, _, _, _)
\* the waves of a call that runs with nothing else in flight: each handler of
\* a wave reads the results stored by the waves before
alone_waves(run, graph, res, executed) ==
    LET ready == find_ready_nodes(run.config.nodes, graph, executed) IN
    IF Cardinality(executed) < Len(run.config.nodes) /\ ready # <<>>
    THEN alone_waves(run, graph,
             store_results(res, ready,
                 [k \in DOMAIN ready |-> handler_outcome(run, ready[k], res)]),
             executed \cup node_ids(ready))
    ELSE [results |-> res, executed |-> executed]

\* what a call run alone ends with
run_alone(run) ==
    LET validation == validate_workflow(run.config.nodes, run.config.edges)
        end == alone_waves(run,
                   build_execution_graph(run.config.nodes, run.config.edges), <<>>, {})
    IN IF must_raise(validation)
       THEN [results |-> <<>>,
             outcome |-> [kind |-> "raise",
                          error |-> <<"Invalid workflow: ", validation.errors>>]]
       ELSE [results |-> end.results,
             outcome |-> [kind |-> "return",
                          output |-> final_output(run.config.nodes, end.results),
                          execution_summary |->
                              execution_summary(run.config.nodes, end.executed,
                                                end.results)]]

\* ------------------------------------------------ the chat WebSocket
\* connections opened on one chat session, and text frames read on each
MaxConns == 2
MaxMessages == 1
Conns == 1..MaxConns
\* what json.loads makes of a text frame: a dict, or a JSONDecodeError
Frames == {"json", "malformed"}

\* position of a websocket_endpoint coroutine: "new" before manager.connect,
\* "receive" awaiting receive_text, "send" awaiting a send_text of a
\* broadcast, "execute" awaiting execute_workflow, "closed" after it ended.
\* While it broadcasts: the frame type (stage), the set the iterator was
\* created on (initial), the connections already tried (visited), the one
\* being sent to (target), and whether an exception is waiting for the
\* finally clause to end (raising)
NewEndpoint ==
    [pc |-> "new", client |-> "open", received |-> 0, stage |-> "none",
     initial |-> {}, visited |-> {}, target |-> 0, raising |-> FALSE]

InitChat ==
    /\ workflow_config = [nodes |-> <<>>, edges |-> <<>>]
    /\ user_input \in UserInputs
    /\ pc = "call"
    /\ execution_graph = <<>>
    /\ results = <<>>
    /\ executed_nodes = {}
    /\ ready_nodes = <<>>
    /\ tasks = <<>>
    /\ wave = 0
    /\ outcome = NoOutcome
    /\ calls = <<>>
    /\ history = [i \in 1..MaxNodes |-> NoHistory]
    /\ validations = <<>>
    /\ runs = <<>>
    /\ active_connections = {}
    /\ endpoints = [c \in Conns |-> NewEndpoint]
    /\ broadcast_log = [c \in Conns |-> <<>>]

\* ConnectionManager.connect after accept, and ConnectionManager.disconnect
manager_connect(connections, c) == connections \cup {c}
manager_disconnect(connections, c) == connections \ {c}

\* an entry of the log: a frame read, or a broadcast that ended
LogEntry(stage, result, attempted, missed) ==
    [stage |-> stage, outcome |-> result, attempted |-> attempted, missed |-> missed]
Received(frame) == LogEntry("received", frame, {}, {})

\* broadcast_to_session up to its first await: the session has connections,
\* the iterator over its set is created and yields connection t
begin_broadcast(e, stage, raising, connections, t) ==
    [e EXCEPT !.pc = "send", !.stage = stage, !.raising = raising,
              !.initial = connections, !.visited = {}, !.target = t]

\* the coroutine has ended or waits for the next frame
at_rest(e, where) ==
    [e EXCEPT !.pc = where, !.stage = "none", !.raising = FALSE,
              !.initial = {}, !.visited = {}, !.target = 0]

\* next() of a set iterator raises RuntimeError when the size of the set is
\* not what it was when the iterator was created
set_changed_size(e, connections) ==
    Cardinality(connections) # Cardinality(e.initial)

\* the endpoint leaves the loop through one of the outer except clauses
endpoint_ends(c) ==
    /\ endpoints' = [endpoints EXCEPT ![c] = at_rest(@, "closed")]
    /\ active_connections' = manager_disconnect(active_connections, c)

\* websocket_endpoint goes on after the broadcast of e.stage returned
after_broadcast(c, e) ==
    CASE e.stage = "user_message" ->
            /\ \E t \in active_connections :
                  endpoints' = [endpoints EXCEPT ![c] =
                      begin_broadcast(e, "thinking_on", FALSE, active_connections, t)]
            /\ UNCHANGED active_connections
      [] e.stage = "thinking_on" ->
            /\ endpoints' = [endpoints EXCEPT ![c] = at_rest(e, "execute")]
            /\ UNCHANGED active_connections
      [] e.stage \in {"assistant_message", "error"} ->
            /\ \E t \in active_connections :
                  endpoints' = [endpoints EXCEPT ![c] =
                      begin_broadcast(e, "thinking_off", e.raising, active_connections, t)]
            /\ UNCHANGED active_connections
      [] e.stage = "thinking_off" /\ ~e.raising ->
            /\ endpoints' = [endpoints EXCEPT ![c] = at_rest(e, "receive")]
            /\ UNCHANGED active_connections
      [] e.stage = "thinking_off" /\ e.raising -> endpoint_ends(c)

\* websocket_endpoint goes on after the broadcast of e.stage raised
after_broadcast_raised(c, e) ==
    CASE e.stage \in {"user_message", "thinking_on", "thinking_off"} ->
            endpoint_ends(c)
      [] e.stage = "assistant_message" ->
            /\ \E t \in active_connections :
                  endpoints' = [endpoints EXCEPT ![c] =
                      begin_broadcast(e, "error", FALSE, active_connections, t)]
            /\ UNCHANGED active_connections
      [] e.stage = "error" ->
            /\ \E t \in active_connections :
                  endpoints' = [endpoints EXCEPT ![c] =
                      begin_broadcast(e, "thinking_off", TRUE, active_connections, t)]
            /\ UNCHANGED active_connections

engine_vars == <<workflow_config, user_input, pc, execution_graph, results,
                 executed_nodes, ready_nodes, tasks, wave, outcome, calls, history,
                 validations, runs>>

\* the workflow and the session exist: the socket is accepted and registered
ws_connect(c) ==
    /\ endpoints[c].pc = "new"
    /\ active_connections' = manager_connect(active_connections, c)
    /\ endpoints' = [endpoints EXCEPT ![c].pc = "receive"]
    /\ UNCHANGED broadcast_log
    /\ UNCHANGED engine_vars

\* the workflow or the session is not found: close(code=4004) and return
ws_reject(c) ==
    /\ endpoints[c].pc = "new"
    /\ endpoints' = [endpoints EXCEPT ![c].pc = "closed", ![c].client = "closed"]
    /\ UNCHANGED <<active_connections, broadcast_log>>
    /\ UNCHANGED engine_vars

\* the client of connection c goes away
client_close(c) ==
    /\ endpoints[c].pc \notin {"new", "closed"}
    /\ endpoints[c].client = "open"
    /\ endpoints' = [endpoints EXCEPT ![c].client = "closed"]
    /\ UNCHANGED <<active_connections, broadcast_log>>
    /\ UNCHANGED engine_vars

\* receive_text returns a frame: json.loads raises on a malformed one and the
\* endpoint ends; otherwise the user message is saved and its broadcast begins
ws_receive(c) ==
    /\ endpoints[c].pc = "receive"
    /\ endpoints[c].client = "open"
    /\ endpoints[c].received < MaxMessages
    /\ \E frame \in Frames :
          /\ broadcast_log' = [broadcast_log EXCEPT ![c] = Append(@, Received(frame))]
          /\ IF frame = "malformed"
             THEN endpoint_ends(c)
             ELSE /\ \E t \in active_connections :
                        endpoints' = [endpoints EXCEPT ![c] =
                            begin_broadcast([endpoints[c] EXCEPT !.received = @ + 1],
                                            "user_message", FALSE, active_connections, t)]
                  /\ UNCHANGED active_connections
    /\ UNCHANGED engine_vars

\* receive_text raises WebSocketDisconnect
ws_receive_disconnect(c) ==
    /\ endpoints[c].pc = "receive"
    /\ endpoints[c].client = "closed"
    /\ endpoint_ends(c)
    /\ UNCHANGED broadcast_log
    /\ UNCHANGED engine_vars

\* a send_text of the broadcast of endpoint c returns or raises (swallowed),
\* and the for loop asks the iterator for the next connection
send_text_done(c) ==
    LET e == endpoints[c]
        attempted == e.visited \cup {e.target}
        ended(result) ==
            LogEntry(e.stage, result, attempted,
                     (e.initial \cap active_connections) \ attempted)
    IN /\ e.pc = "send"
       /\ \/ /\ set_changed_size(e, active_connections)
             /\ broadcast_log' = [broadcast_log EXCEPT ![c] = Append(@, ended("raised"))]
             /\ after_broadcast_raised(c, e)
          \/ /\ ~set_changed_size(e, active_connections)
             /\ \E t \in active_connections \ attempted :
                   endpoints' = [endpoints EXCEPT ![c] =
                       [e EXCEPT !.visited = attempted, !.target = t]]
             /\ UNCHANGED <<active_connections, broadcast_log>>
          \/ /\ ~set_changed_size(e, active_connections)
             /\ (e.initial \cap active_connections) \ attempted = {}
             /\ broadcast_log' = [broadcast_log EXCEPT ![c] = Append(@, ended("completed"))]
             /\ after_broadcast(c, e)
       /\ UNCHANGED engine_vars

\* execute_workflow returned: the answer is saved and its broadcast begins
ws_execute_returns(c) ==
    /\ endpoints[c].pc = "execute"
    /\ \E t \in active_connections :
          endpoints' = [endpoints EXCEPT ![c] =
              begin_broadcast(endpoints[c], "assistant_message", FALSE,
                              active_connections, t)]
    /\ UNCHANGED <<active_connections, broadcast_log>>
    /\ UNCHANGED engine_vars

\* execute_workflow raised: the broadcast of the error frame begins
ws_execute_raises(c) ==
    /\ endpoints[c].pc = "execute"
    /\ \E t \in active_connections :
          endpoints' = [endpoints EXCEPT ![c] =
              begin_broadcast(endpoints[c], "error", FALSE, active_connections, t)]
    /\ UNCHANGED <<active_connections, broadcast_log>>
    /\ UNCHANGED engine_vars

NextChat ==
    \/ \E c \in Conns : ws_connect(c)
    \/ \E c \in Conns : ws_reject(c)
    \/ \E c \in Conns : client_close(c)
    \/ \E c \in Conns : ws_receive(c)
    \/ \E c \in Conns : ws_receive_disconnect(c)
    \/ \E c \in Conns : send_text_done(c)
    \/ \E c \in Conns : ws_execute_returns(c)
    \/ \E c \in Conns : ws_execute_raises(c)

ChatSpec == InitChat /\ [][NextChat]_vars

\* ======================================================================
\* Properties
\* ======================================================================
Ids == node_ids(nodes)
Valid == validate_workflow(nodes, edges).valid
Invoked(i) == history[i].invoked > 0
Failed(i) == history[i].handler = "raised"
HasEdge(a, b) == \E k \in DOMAIN edges : edges[k].source = a /\ edges[k].target = b

\* the ids reachable from id a along one or more edges
RECURSIVE ReachWithin(_, _)
ReachWithin(S, n) ==
    IF n = 0 THEN S
    ELSE ReachWithin(S \cup {b \in Ids : \E a \in S : HasEdge(a, b)}, n - 1)
Reach(a) == ReachWithin({b \in Ids : HasEdge(a, b)}, Len(nodes))
OnCycle(a) == a \in Reach(a)
\* on a dependency cycle, or downstream of one
Stranded(a) == \E c \in Ids : OnCycle(c) /\ (a = c \/ a \in Reach(c))

\* C1: when validate_workflow finds the config invalid, execute_workflow
\* raises "Invalid workflow" carrying the validation errors; no handler is
\* invoked, no collaborator is called, nothing is stored and nothing returned.
C1_InvalidWorkflowRaises ==
    (pc # "call" /\ ~Valid) =>
        /\ pc = "raised"
        /\ outcome.kind = "raise"
        /\ outcome.error = <<"Invalid workflow: ", validate_workflow(nodes, edges).errors>>
        /\ Len(outcome.error[2]) > 0
        /\ calls = <<>>
        /\ \A i \in 1..MaxNodes : history[i] = NoHistory
        /\ results = <<>> /\ executed_nodes = {} /\ tasks = <<>>

\* an invalid config with several errors has been rejected, and it holds
\* nodes that would have called both collaborators
C1_Witness ==
    /\ pc = "raised"
    /\ Len(outcome.error[2]) > 1
    /\ \E i, j \in Ids : node_type(nodes[i]) = KNOWLEDGE_BASE
                         /\ node_type(nodes[j]) = LLM_ENGINE

\* the type of the result a node's handler returns
OwnResultType(n) ==
    CASE node_type(n) = USER_QUERY -> "user_query"
      [] node_type(n) = KNOWLEDGE_BASE -> "knowledge_base"
      [] node_type(n) = LLM_ENGINE -> "llm_response"
      [] node_type(n) = WEB_SEARCH -> "web_search"
      [] node_type(n) = OUTPUT -> "output"
      [] OTHER -> None

\* the wave node a was scheduled in has been joined
Joined(a) == history[a].wave > 0 /\ (history[a].wave < wave \/ pc = "returned")

\* C2: dependency ordering.  For every edge A->B, when B's handler is invoked
\* A's entry (result or error) is already in context.results under A's id, and
\* A ran in a strictly earlier wave than B.
C2_DependencyOrdering ==
    \A k \in DOMAIN edges :
        LET a == edges[k].source
            b == edges[k].target
        IN (b \in Ids /\ Invoked(b)) =>
              /\ a \in history[b].seen
              /\ a \in DictKeys(results)
              /\ a \in executed_nodes
              /\ history[a].wave > 0
              /\ history[a].wave < history[b].wave

\* a dependent has started although the node it depends on had failed, and it
\* found that node's error entry in the context
C2_Witness ==
    \E k \in DOMAIN edges :
        /\ edges[k].target \in Ids
        /\ Invoked(edges[k].target)
        /\ Failed(edges[k].source)
        /\ edges[k].source \in history[edges[k].target].seen

\* failure isolation, for the dependents named: when a handler fails the run
\* goes on, the failed node is stored as an error entry and marked executed,
\* its wave's siblings have their own results stored, and the named nodes
\* that depend on it are executed in a later wave
C3_Isolation(dependents) ==
    \A a \in Ids : Failed(a) =>
        /\ pc \in {"gather", "returned"}
        /\ outcome.kind # "raise"
        /\ Joined(a) =>
              /\ a \in executed_nodes
              /\ a \in DictKeys(results)
              /\ IsErrorEntry(DictLookup(results, a))
              /\ \A b \in Ids : history[b].wave = history[a].wave =>
                    /\ b \in executed_nodes
                    /\ b \in DictKeys(results)
                    /\ IsErrorEntry(DictLookup(results, b)) <=> Failed(b)
                    /\ ~Failed(b) =>
                          ResultType(DictLookup(results, b)) = OwnResultType(nodes[b])
        /\ pc = "returned" =>
              \A b \in Ids : (HasEdge(a, b) /\ b \in dependents) =>
                    /\ b \in executed_nodes
                    /\ history[b].wave > history[a].wave
                    /\ Invoked(b)

\* C3 as stated: failure isolation, every node that depends on the failed
\* node being executed in a later wave.
C3_FailureIsolationAsStated == C3_Isolation(Ids)

\* C3 amended: failure isolation, the dependents of the failed node that no
\* dependency cycle strands being executed in a later wave.
C3_FailureIsolation == C3_Isolation({b \in Ids : ~Stranded(b)})

\* a run has returned in which a handler failed beside a sibling of its wave
\* that succeeded, and a dependent of the failed node ran in a later wave
C3_Witness ==
    /\ pc = "returned"
    /\ \E a, b, c \in Ids :
          /\ Failed(a) /\ b # a /\ history[b].wave = history[a].wave /\ ~Failed(b)
          /\ HasEdge(a, c) /\ c \in executed_nodes

\* C4: wave barrier.  When a handler of a later wave is invoked, every node
\* scheduled in an earlier wave has finished its handler, is marked executed
\* and has its entry stored (the later handler finds it in the context).
C4_WaveBarrier ==
    \A i, j \in Ids :
        (Invoked(i) /\ history[j].wave > 0 /\ history[j].wave < history[i].wave) =>
            /\ history[j].handler \in {"returned", "raised"}
            /\ j \in executed_nodes
            /\ j \in DictKeys(results)
            /\ j \in history[i].seen

\* a handler of the second wave has started after a first wave of two nodes,
\* one of which awaited a collaborator
C4_Witness ==
    \E i, j, l \in Ids :
        /\ Invoked(i) /\ history[i].wave = 2
        /\ j # l /\ history[j].wave = 1 /\ history[l].wave = 1
        /\ node_type(nodes[j]) \in {KNOWLEDGE_BASE, LLM_ENGINE}

\* no edge joins a and b, in either direction
NoEdgeBetween(a, b) == ~HasEdge(a, b) /\ ~HasEdge(b, a)
\* a is not executed and every node it depends on is
IsReady(a) == a \notin executed_nodes /\ \A d \in Ids : HasEdge(d, a) => d \in executed_nodes
\* the entries of the nodes whose id is in S, in declaration order
StoredResultsOf(S) ==
    Flatten([k \in DOMAIN nodes |->
        IF nodes[k].id \in S /\ nodes[k].id \in DictKeys(results)
        THEN <<DictLookup(results, nodes[k].id)>> ELSE <<>>])

\* C5 as stated: any two executed nodes with no edge between them ran in the
\* same wave, and neither handler saw the other's result of that wave.
C5_FanOutIsolationAsStated ==
    pc = "returned" =>
        \A i, j \in executed_nodes : (i # j /\ NoEdgeBetween(i, j)) =>
            /\ history[i].wave = history[j].wave
            /\ j \notin history[i].seen

\* C5 amended: the nodes that are ready at the same loop iteration (no edge
\* can join two of them) run in the same wave, and neither handler of two
\* nodes of a wave finds the other's result of that wave in context.results.
C5_FanOutIsolation ==
    /\ pc = "gather" =>
          /\ node_ids(ready_nodes) = {a \in Ids : IsReady(a)}
          /\ \A a \in node_ids(ready_nodes) : history[a].wave = wave
          /\ node_ids(ready_nodes) \cap DictKeys(results) = {}
    /\ \A i, j \in Ids :
          (i # j /\ history[i].wave > 0 /\ history[i].wave = history[j].wave) =>
              /\ NoEdgeBetween(i, j)
              /\ j \notin history[i].seen

\* an output node has run in the same wave as an llm_engine node whose
\* completion had already returned
C5_Witness ==
    /\ pc = "gather"
    /\ \E i, j \in node_ids(ready_nodes) :
          /\ node_type(nodes[i]) = OUTPUT /\ history[i].handler = "returned"
          /\ node_type(nodes[j]) = LLM_ENGINE /\ history[j].handler = "returned"

\* C6: termination.  For every config that passes validation, cyclic or
\* not, the loop runs at most |nodes| waves, and when every handler
\* invocation returns or fails (FairSpec) execute_workflow returns.
C6_Termination ==
    /\ [](wave <= Len(nodes))
    /\ <>(pc = "returned")

\* a valid config with a dependency cycle has made execute_workflow return
\* after as many waves as it has nodes outside the cycle
C6_Witness ==
    /\ pc = "returned"
    /\ \E a \in Ids : OnCycle(a)
    /\ wave = 2
    /\ Cardinality(executed_nodes) = 2

\* C7: silent stall.  A wave is never empty; when no node is ready while
\* unexecuted nodes remain, execute_workflow returns normally (a valid config
\* never makes it raise), the return value has no error field, the unexecuted
\* nodes have no entry in context.results and none in output, and
\* executed_nodes < total_nodes.
C7_SilentStall ==
    /\ pc = "gather" => ready_nodes # <<>>
    /\ (Valid /\ pc # "call") => pc \in {"gather", "returned"}
    /\ (pc = "returned" /\ executed_nodes # Ids) =>
          /\ \A a \in Ids : ~IsReady(a)
          /\ DOMAIN outcome = {"kind", "output", "execution_summary"}
          /\ outcome.kind = "return"
          /\ \A a \in Ids \ executed_nodes : a \notin DictKeys(results) /\ ~Invoked(a)
          /\ outcome.output =
                StoredResultsOf({a \in executed_nodes :
                                    HasTypeOrDataType(nodes[a], OUTPUT)})
          /\ outcome.execution_summary.executed_nodes
                < outcome.execution_summary.total_nodes
          /\ outcome.execution_summary.errors = Cardinality({a \in Ids : Failed(a)})

\* a run has returned with an output node stranded by a cycle
C7_Witness ==
    /\ pc = "returned"
    /\ executed_nodes # {}
    /\ \E a \in Ids \ executed_nodes : node_type(nodes[a]) = OUTPUT

\* C8: the returned output is exactly the stored results of the nodes whose
\* effective type (node_type) is output, in declaration order.
C8_OutputIsEffectiveOutputs ==
    pc = "returned" =>
        outcome.output = StoredResultsOf({a \in Ids : node_type(nodes[a]) = OUTPUT})

\* C9: in the returned summary total_nodes is the number of declared nodes,
\* executed_nodes the number of nodes marked executed, and errors the number
\* of error entries, which are the entries of the nodes whose handler failed.
C9_ExecutionSummary ==
    pc = "returned" =>
        /\ outcome.execution_summary.total_nodes = Len(nodes)
        /\ outcome.execution_summary.executed_nodes = Cardinality(executed_nodes)
        /\ executed_nodes = {a \in Ids : history[a].wave > 0}
        /\ outcome.execution_summary.errors =
              Cardinality({k \in DOMAIN results : IsErrorEntry(results[k].res)})
        /\ outcome.execution_summary.errors = Cardinality({a \in Ids : Failed(a)})
        /\ \A a \in executed_nodes :
              IsErrorEntry(DictLookup(results, a)) <=> Failed(a)

\* a run has returned in which one handler failed and two succeeded
C9_Witness ==
    /\ pc = "returned"
    /\ outcome.execution_summary.errors = 1
    /\ outcome.execution_summary.executed_nodes = 3

\* the retrieval call of a knowledge_base node failed
RetrievalFailed == \E a \in Ids : node_type(nodes[a]) = KNOWLEDGE_BASE /\ Failed(a)

\* partial failure, for the output nodes named
C10_PartialFailure(concerned) ==
    RetrievalFailed =>
        /\ pc \in {"gather", "returned"}
        /\ pc = "returned" =>
              /\ outcome.execution_summary.errors >= 1
              /\ \A o \in Ids : (node_type(nodes[o]) = OUTPUT /\ o \in concerned) =>
                    /\ o \in DictKeys(results)
                    /\ ResultType(DictLookup(results, o)) = "output"
                    /\ \E k \in DOMAIN outcome.output :
                          outcome.output[k] = DictLookup(results, o)

\* C10 as stated: if a knowledge_base node's retrieval call fails, the
\* returned output contains the result of the output node (of every output
\* node) and execution_summary.errors >= 1.
C10_PartialFailureAsStated == C10_PartialFailure(Ids)

\* C10 amended: the same, for every output node that no dependency cycle
\* strands.
C10_PartialFailureNotStranded == C10_PartialFailure({o \in Ids : ~Stranded(o)})

\* a run has returned whose retrieval failed and whose output node, a
\* dependent of the knowledge_base node, delivered its result
C10_Witness ==
    /\ pc = "returned"
    /\ \E a, o \in Ids :
          /\ node_type(nodes[a]) = KNOWLEDGE_BASE /\ Failed(a)
          /\ node_type(nodes[o]) = OUTPUT /\ HasEdge(a, o)
          /\ Len(outcome.output) = 1

\* nodes a, b, c form the 3-node chain a -> b -> c and nothing else
IsChain(a, b, c) ==
    /\ Len(nodes) = 3
    /\ Ids = {a, b, c}
    /\ Cardinality({a, b, c}) = 3
    /\ Len(edges) = 2
    /\ Range(edges) = {[source |-> a, target |-> b], [source |-> b, target |-> c]}

\* C11: in a 3-node chain first -> middle -> output node whose middle handler
\* fails (the first node's does not), the output node is still executed, its
\* result is present in output and is no error entry, and
\* execution_summary.errors = 1; the handler of an output node never fails,
\* whatever results are in the context.
C11_ChainMiddleFails ==
    /\ \A o \in Ids : node_type(nodes[o]) = OUTPUT => ~Failed(o)
    /\ \A a, b, c \in Ids :
          (/\ IsChain(a, b, c)
           /\ node_type(nodes[c]) = OUTPUT
           /\ Failed(b) /\ ~Failed(a)
           /\ pc = "returned") =>
              /\ executed_nodes = {a, b, c}
              /\ Invoked(c)
              /\ history[c].handler = "returned"
              /\ history[c].wave > history[b].wave
              /\ ~IsErrorEntry(DictLookup(results, c))
              /\ ResultType(DictLookup(results, c)) = "output"
              /\ \E k \in DOMAIN outcome.output :
                    outcome.output[k] = DictLookup(results, c)
              /\ \A k \in DOMAIN outcome.output : ~IsErrorEntry(outcome.output[k])
              /\ outcome.execution_summary.errors = 1

\* the run of a chain has returned whose middle node, an llm_engine, failed
\* and whose output node found the error entry in the context
C11_Witness ==
    /\ pc = "returned"
    /\ \E a, b, c \in Ids :
          /\ IsChain(a, b, c)
          /\ node_type(nodes[b]) = LLM_ENGINE /\ Failed(b)
          /\ node_type(nodes[c]) = OUTPUT /\ b \in history[c].seen

\* C12: for the chain user_query -> llm_engine -> output with no
\* knowledge_base node and no prompt template, the completion collaborator is
\* invoked exactly once, with a prompt equal to user_input, and output is a
\* single-element sequence whose content is the text the collaborator returned.
C12_ChainEndToEnd ==
    \A a, b, c \in Ids :
        (/\ IsChain(a, b, c)
         /\ node_type(nodes[a]) = USER_QUERY
         /\ node_type(nodes[b]) = LLM_ENGINE
         /\ node_type(nodes[c]) = OUTPUT
         /\ nodes[b].data.config.prompt = <<>>
         /\ history[b].handler = "returned"
         /\ pc = "returned") =>
            /\ calls = << [collaborator |-> "generate_completion", node |-> b,
                          text |-> user_input] >>
            /\ Len(outcome.output) = 1
            /\ ResultType(outcome.output[1]) = "output"
            /\ outcome.output[1].content = DictLookup(results, b).content

\* C19 as stated: the entry stored for a node whose handler failed is
\* {type: error, error: message}, message being the text of the failure.
C19_ErrorEntryAsStated ==
    \A a \in Ids : (Failed(a) /\ Joined(a)) =>
        /\ a \in DictKeys(results)
        /\ DOMAIN DictLookup(results, a) = {"type", "error"}
        /\ ResultType(DictLookup(results, a)) = "error"

\* the texts a failure of node a's handler can carry
FailureTexts(a) ==
    CASE node_type(nodes[a]) = KNOWLEDGE_BASE -> RetrievalErrors
      [] node_type(nodes[a]) = LLM_ENGINE -> {e \in UpstreamErrors : ~IsFallbackError(e)}
      [] OTHER -> {<<"Unknown node type: ", node_type(nodes[a])>>}

\* C19 amended: the entry stored for a node whose handler failed is the
\* record {error: message}, message being the text of the failure; it carries
\* no type tag (its result type reads as absent).
C19_ErrorEntry ==
    \A a \in Ids : (Failed(a) /\ Joined(a)) =>
        /\ a \in DictKeys(results)
        /\ DOMAIN DictLookup(results, a) = {"error"}
        /\ DictLookup(results, a).error \in FailureTexts(a)
        /\ ResultType(DictLookup(results, a)) = None

\* the waves of a failed knowledge_base node and of a failed llm_engine node
\* have been joined
C19_Witness ==
    \E a, b \in Ids :
        /\ node_type(nodes[a]) = KNOWLEDGE_BASE /\ Failed(a) /\ Joined(a)
        /\ node_type(nodes[b]) = LLM_ENGINE /\ Failed(b) /\ Joined(b)

\* C20: during a run context.results only grows: from one step to the next
\* the set of node ids that have an entry never shrinks and no entry is
\* removed (nor replaced: an entry, once stored, stays as it is).
C20_ResultsOnlyGrow ==
    [][/\ DictKeys(results) \subseteq DictKeys(results')
       /\ Len(results) <= Len(results')
       /\ \A a \in DictKeys(results) :
             DictLookup(results', a) = DictLookup(results, a)]_vars

\* the third wave of a run has been joined: three entries, stored one wave
\* after the other
C20_Witness ==
    /\ wave = 3
    /\ Len(results) = 3
    /\ pc = "returned"

\* the error messages of validate_workflow that name a missing node kind
NoUserQueryError == <<"Workflow must have at least one User Query node">>
NoOutputError == <<"Workflow must have at least one Output node">>
\* some / no declared node has effective type t
HasEffectiveType(t) == \E k \in DOMAIN nodes : node_type(nodes[k]) = t
\* the undeclared endpoints of the edges, as (edge position, end) pairs
UndeclaredEnds ==
    {<<k, "source">> : k \in {j \in DOMAIN edges : edges[j].source \notin Ids}}
    \cup {<<k, "target">> : k \in {j \in DOMAIN edges : edges[j].target \notin Ids}}

\* C13: for every config in which no node has effective type user_query,
\* validate_workflow returns valid = false with an error naming "User Query".
C13_NoUserQueryInvalid ==
    \A k \in DOMAIN validations :
        ~HasEffectiveType(USER_QUERY) =>
            /\ ~validations[k].valid
            /\ NoUserQueryError \in Range(validations[k].errors)

\* C14: for every config in which no node has effective type output,
\* validate_workflow returns valid = false with an error naming "Output".
C14_NoOutputInvalid ==
    \A k \in DOMAIN validations :
        ~HasEffectiveType(OUTPUT) =>
            /\ ~validations[k].valid
            /\ NoOutputError \in Range(validations[k].errors)

\* C15: for every edge whose source id (target id) is the id of no declared
\* node, validate_workflow returns valid = false and its errors hold an entry
\* naming that id; an edge whose two endpoints are both undeclared yields an
\* entry for each: there are as many edge entries as undeclared endpoints.
C15_UnknownEdgeEndpoints ==
    \A k \in DOMAIN validations :
        LET errors == validations[k].errors IN
        /\ \A e \in DOMAIN edges :
              /\ edges[e].source \notin Ids =>
                    /\ ~validations[k].valid
                    /\ <<"Invalid edge source: ", edges[e].source>> \in Range(errors)
              /\ edges[e].target \notin Ids =>
                    /\ ~validations[k].valid
                    /\ <<"Invalid edge target: ", edges[e].target>> \in Range(errors)
        /\ Cardinality({j \in DOMAIN errors :
                          errors[j][1] \in {"Invalid edge source: ",
                                            "Invalid edge target: "}})
              = Cardinality(UndeclaredEnds)

\* a config has been validated that holds an edge with both endpoints
\* undeclared and an edge of which only the target is undeclared
C15_Witness ==
    /\ validations # <<>>
    /\ \E e, f \in DOMAIN edges :
          /\ edges[e].source \notin Ids /\ edges[e].target \notin Ids
          /\ edges[f].source \in Ids /\ edges[f].target \notin Ids

C17_ValidExactly ==
    \A k \in DOMAIN validations :
        /\ ~validations[k].valid <=>
              \/ nodes = <<>>
              \/ \E i \in DOMAIN nodes : node_type(nodes[i]) \notin ComponentType
              \/ ~HasEffectiveType(USER_QUERY)
              \/ ~HasEffectiveType(OUTPUT)
              \/ UndeclaredEnds # {}
        /\ validations[k].valid <=> validations[k].errors = <<>>
        /\ \A i \in DOMAIN nodes :
              (node_type(nodes[i]) = LLM_ENGINE /\ ~nodes[i].data.config.apiKey) =>
                  <<"LLM node missing API key", nodes[i].id>>
                      \in Range(validations[k].warnings)

\* s is the beginning of t
IsPrefix(s, t) == Len(s) <= Len(t) /\ s = SubSeq(t, 1, Len(s))

C21_UpstreamFailureRecorded ==
    \A a \in Ids :
        (/\ node_type(nodes[a]) = LLM_ENGINE
         /\ Joined(a)
         /\ \/ Failed(a)
            \/ /\ "content" \in DOMAIN DictLookup(results, a)
               /\ DictLookup(results, a).content = DemoResponse) =>
            /\ IsErrorEntry(DictLookup(results, a))
            /\ ResultType(DictLookup(results, a)) # "llm_response"
            /\ pc \in {"gather", "returned"}
            /\ pc = "returned" => outcome.execution_summary.errors >= 1

\* no declared node lies on a dependency cycle
Acyclic == \A a \in Ids : ~OnCycle(a)

\* C22: completeness on acyclic graphs.  For every valid workflow with an
\* acyclic edge relation, when every handler invocation completes (FairSpec)
\* every declared node is eventually executed: the run returns with
\* executed_nodes = total_nodes and an entry in context.results for every
\* node; and each wave runs every node that is ready at that point.
C22_AcyclicCompleteness ==
    /\ [](Acyclic =>
            /\ pc = "gather" => node_ids(ready_nodes) = {a \in Ids : IsReady(a)}
            /\ pc = "returned" =>
                  /\ executed_nodes = Ids
                  /\ DictKeys(results) = Ids
                  /\ outcome.execution_summary.executed_nodes
                        = outcome.execution_summary.total_nodes)
    /\ (Acyclic ~> (pc = "returned" /\ executed_nodes = Ids))

\* the run of an acyclic config of three nodes has returned after two waves,
\* two nodes having been ready together
C22_Witness ==
    /\ Acyclic
    /\ Len(edges) = 2
    /\ pc = "returned"
    /\ wave = 2
    /\ Cardinality(executed_nodes) = 3

\* C25: _build_execution_graph gives every declared node an entry, and for
\* all declared nodes s and t: s is among dependencies(t) iff t is among
\* dependents(s) iff some edge has source s and target t; an edge with an
\* undeclared endpoint adds nothing to any entry.  The graph a run works on
\* is that graph.
C25_ExecutionGraph ==
    LET graph == build_execution_graph(nodes, edges) IN
    /\ DOMAIN graph = Ids
    /\ \A s, t \in Ids :
          /\ s \in Range(graph[t].dependencies) <=> HasEdge(s, t)
          /\ t \in Range(graph[s].dependents) <=> HasEdge(s, t)
    /\ \A a \in Ids :
          /\ Range(graph[a].dependencies) \subseteq Ids
          /\ Range(graph[a].dependents) \subseteq Ids
          /\ Len(graph[a].dependencies)
                = Cardinality({k \in DOMAIN edges :
                                  edges[k].target = a /\ edges[k].source \in Ids})
          /\ Len(graph[a].dependents)
                = Cardinality({k \in DOMAIN edges :
                                  edges[k].source = a /\ edges[k].target \in Ids})
    /\ pc \in {"gather", "returned"} => execution_graph = graph

\* a config holds an edge between declared nodes and an edge from a declared
\* node to an undeclared id
C25_Witness ==
    \E j, k \in DOMAIN edges :
        /\ edges[j].source \in Ids /\ edges[j].target \in Ids
        /\ edges[k].source \in Ids /\ edges[k].target \notin Ids

\* C26: validation and dispatch agree on the effective type: every node of a
\* config that passes validate_workflow is dispatched to one of the five
\* handlers; no task of a run ends with the 'Unknown node type' failure.
C26_DispatchAgreesWithValidation ==
    /\ \A k \in DOMAIN tasks :
          tasks[k].st = "raised" => tasks[k].value.exception[1] # "Unknown node type: "
    /\ \A a \in Ids :
          /\ Invoked(a) => node_type(nodes[a]) \in ComponentType
          /\ (a \in DictKeys(results) /\ IsErrorEntry(DictLookup(results, a))) =>
                DictLookup(results, a).error[1] # "Unknown node type: "
    /\ Valid => \A a \in Ids : node_type(nodes[a]) \in ComponentType

\* a node under the React Flow wrapper has been dispatched to the output
\* handler and has returned
C26_Witness ==
    \E a \in Ids :
        /\ nodes[a].type = "custom"
        /\ history[a].handler = "returned"
        /\ a \in DictKeys(results)
        /\ ResultType(DictLookup(results, a)) = "output"

\* C27: each node's handler is invoked at most once per run; its entry in
\* context.results is written once and never overwritten; handlers never
\* write to context.results themselves (it changes only when a wave is
\* joined, by the entries of that wave's nodes); and the key set of
\* context.results equals the executed set.
C27_WrittenOnce ==
    /\ [](/\ \A a \in 1..MaxNodes : history[a].invoked <= 1
          /\ DictKeys(results) = executed_nodes
          /\ Len(results) = Cardinality(DictKeys(results)))
    /\ [][results' # results =>
            /\ pc = "gather" /\ gather_complete(tasks)
            /\ DictKeys(results') = DictKeys(results) \cup node_ids(ready_nodes)
            /\ node_ids(ready_nodes) \cap DictKeys(results) = {}
            /\ \A k \in DOMAIN results : results'[k] = results[k]]_vars

\* a run of three waves has returned, every handler invoked once
C27_Witness ==
    /\ pc = "returned"
    /\ wave = 3
    /\ \A a \in Ids : history[a].invoked = 1
    /\ \E a \in Ids : Failed(a)

\* C28: in a valid workflow the nodes left unexecuted when the run ends are
\* exactly the nodes that lie on a dependency cycle (self-loops included) or
\* are reachable from one along edges; every other node is executed.
C28_UnexecutedAreStranded ==
    pc = "returned" =>
        /\ Ids \ executed_nodes = {a \in Ids : Stranded(a)}
        /\ \A a \in Ids : ~Stranded(a) => (a \in executed_nodes /\ Invoked(a))
        /\ \A a \in Ids : Stranded(a) => ~Invoked(a)

\* a run has returned that left unexecuted a node on a cycle and a node below
\* the cycle, and executed the third node
C28_Witness ==
    /\ pc = "returned"
    /\ \E a, b \in Ids \ executed_nodes :
          /\ OnCycle(a) /\ ~OnCycle(b) /\ b \in Reach(a)
    /\ Cardinality(executed_nodes) = 1

\* position of node a's entry in context["results"]: entries are inserted
\* wave by wave, and within a wave in declaration order
CommitKey(a) == history[a].wave * (PipelineNodes + 1) + a
\* the ids of S in the order their entries were inserted
CommitOrder(S) ==
    [k \in 1..Cardinality(S) |->
        CHOOSE a \in S : Cardinality({o \in S : CommitKey(o) < CommitKey(a)}) = k - 1]
\* the nodes of effective type t whose result was in context["results"] when
\* the handler of node b started, and is not an error entry
SeenOfType(b, t) ==
    {a \in history[b].seen : node_type(nodes[a]) = t /\ ~Failed(a)}
\* the tokens of documents in a text
DocTokens == UNION {Range(d) : d \in UNION {Range(ds) : ds \in DocLists}}
DocsQuoted(text) == SelectSeq(text, LAMBDA tok : tok \in DocTokens)

\* C23: the prompt an llm_engine node sends is prefixed with at most the
\* first 3 documents of the first knowledge_base result, in commit order,
\* that is in context.results when the handler runs, whatever the edges; the
\* result of a knowledge_base node of the same or a later wave, or of one
\* that failed, is never used, and without such a result the prompt is the
\* user input.
C23_PromptContext ==
    \A c \in DOMAIN calls :
        calls[c].collaborator = "generate_completion" =>
            LET kbs == CommitOrder(SeenOfType(calls[c].node, KNOWLEDGE_BASE))
                docs == IF kbs = <<>> THEN <<>>
                        ELSE DictLookup(results, kbs[1]).documents
            IN /\ DocsQuoted(calls[c].text) = Flatten(Prefix(docs, 3))
               /\ docs = <<>> => calls[c].text = user_input
               /\ docs # <<>> =>
                     /\ calls[c].text[1] = "Context:\n"
                     /\ Len(calls[c].text)
                           = 2 * Len(Prefix(docs, 3)) + 1 + Len(user_input)

\* an llm_engine handler found two knowledge_base results: the first one in
\* commit order is declared after the other, holds four documents and has no
\* edge to the llm_engine node; the other holds a single document
C23_Witness ==
    \E c \in DOMAIN calls : \E a, b \in Ids :
        /\ calls[c].collaborator = "generate_completion"
        /\ {a, b} \subseteq SeenOfType(calls[c].node, KNOWLEDGE_BASE)
        /\ a > b
        /\ history[a].wave < history[b].wave
        /\ ~HasEdge(a, calls[c].node)
        /\ Len(DictLookup(results, a).documents) = 4
        /\ Len(DictLookup(results, b).documents) = 1

BroadcastsOf(c) == SelectSeq(broadcast_log[c], LAMBDA b : b.stage # "received")

\* C30: broadcast_to_session attempts delivery to every connection
\* registered for the session; a send failure on one connection is swallowed
\* and neither aborts the broadcast nor fails the caller; a connect or
\* disconnect interleaving with an in-progress broadcast neither makes the
\* broadcast fail nor skip a connection that stays registered.
C30_BroadcastReachesAll ==
    \A c \in DOMAIN broadcast_log : \A k \in DOMAIN BroadcastsOf(c) :
        /\ BroadcastsOf(c)[k].outcome = "completed"
        /\ BroadcastsOf(c)[k].missed = {}

\* the frames sent for the k-th message slot of a log, in the order of the
\* endpoint: the frame read, then four broadcasts that all returned
FrameOrder(log) ==
    \A k \in DOMAIN log :
        /\ (k - 1) % 5 = 0 => log[k].stage = "received"
        /\ (k - 1) % 5 = 1 => log[k].stage = "user_message"
        /\ (k - 1) % 5 = 2 => log[k].stage = "thinking_on"
        /\ (k - 1) % 5 = 3 => log[k].stage \in {"assistant_message", "error"}
        /\ (k - 1) % 5 = 4 => log[k].stage = "thinking_off"
        /\ log[k].stage # "received" => log[k].outcome = "completed"

\* C29: for every message received on the chat WebSocket the session is
\* sent, in order, a user_message, thinking(true), exactly one of
\* assistant_message or error, and thinking(false); so every thinking(true)
\* has been followed by a thinking(false) when the next message is read or
\* the endpoint ends.
C29_FramesPerMessage ==
    \A c \in DOMAIN broadcast_log :
        /\ FrameOrder(broadcast_log[c])
        /\ endpoints[c].pc \in {"receive", "closed"} => Len(broadcast_log[c]) % 5 = 0

====
